---- MODULE Spec2Model ----
(***************************************************************************)
(* Model of src/src/flet_gui_builder/validated_textfield.py:               *)
(* ValidatedTextField and DateTimeTextField, one field instance, driven    *)
(* by the UI events the host toolkit dispatches to it (text edits and      *)
(* focus loss).                                                            *)
(*                                                                         *)
(* Python values are encoded as follows.                                   *)
(*   str            a sequence of one-character strings                    *)
(*   Optional[T]    None is <<>>, a value x is <<x>>  (None / Some(x))     *)
(*   datetime       [year, month, day] (the format has no time fields,     *)
(*                  so the time of day is always 00:00:00)                 *)
(*   Enum member    [type |-> "ValidationEvent", value |-> ...]            *)
(*   plain str used as a selector  [type |-> "str", value |-> ...]         *)
(*   the field object    a record with the attributes of the instance;     *)
(*                  label is left out, it is only handed to the widget     *)
(***************************************************************************)
EXTENDS Integers, Sequences, FiniteSets, TLC

\* ---------------------------------------------------------------- bounds
\* Largest number of repaint callbacks recorded in one behaviour.
MaxUpdates == 3

\* ------------------------------------------------------- Python encodings
None == <<>>

Some(x) == <<x>>

\* ValidationEvent.ON_BLUR  (Enum member, value "on_blur")
ON_BLUR == [type |-> "ValidationEvent", value |-> "on_blur"]

\* ValidationEvent.ON_CHANGE  (Enum member, value "on_change")
ON_CHANGE == [type |-> "ValidationEvent", value |-> "on_change"]

\* The plain string "on_blur", the default of DateTimeTextField.__init__
StrOnBlur == [type |-> "str", value |-> "on_blur"]

\* The plain string "on_change"
StrOnChange == [type |-> "str", value |-> "on_change"]

\* Python's == between selectors: an Enum member without a str mixin is
\* equal only to itself, never to the string that is its value.
PyEq(a, b) == a.type = b.type /\ a.value = b.value

\* ------------------------------------------------- datetime.strptime model
Digits == {"0", "1", "2", "3", "4", "5", "6", "7", "8", "9"}

DigitValue(c) ==
    CASE c = "0" -> 0 [] c = "1" -> 1 [] c = "2" -> 2 [] c = "3" -> 3
      [] c = "4" -> 4 [] c = "5" -> 5 [] c = "6" -> 6 [] c = "7" -> 7
      [] c = "8" -> 8 [] c = "9" -> 9

\* int() of the digits s[from..to]; a leading space (the " [1-9]" day
\* alternative) is skipped as int() strips whitespace.
RECURSIVE IntOf(_, _, _)
IntOf(s, from, to) ==
    IF to < from THEN 0
    ELSE IF s[to] = " " THEN IntOf(s, from, to - 1)
    ELSE 10 * IntOf(s, from, to - 1) + DigitValue(s[to])

At(s, i) == IF i >= 1 /\ i <= Len(s) THEN s[i] ELSE "<eos>"

\* %Y is (?P<Y>\d\d\d\d): the length matched at position p, or none.
YearLens(s, p) ==
    IF \A k \in 0..3 : At(s, p + k) \in Digits THEN <<4>> ELSE <<>>

\* %m is (?P<m>1[0-2]|0[1-9]|[1-9]): the lengths its alternatives match at
\* position p, in the order the regex engine tries them.
MonthLens(s, p) ==
    (IF At(s, p) = "1" /\ At(s, p + 1) \in {"0", "1", "2"} THEN <<2>> ELSE <<>>)
    \o (IF At(s, p) = "0" /\ At(s, p + 1) \in Digits \ {"0"} THEN <<2>> ELSE <<>>)
    \o (IF At(s, p) \in Digits \ {"0"} THEN <<1>> ELSE <<>>)

\* %d is (?P<d>3[0-1]|[1-2]\d|0[1-9]|[1-9]| [1-9]), likewise.
DayLens(s, p) ==
    (IF At(s, p) = "3" /\ At(s, p + 1) \in {"0", "1"} THEN <<2>> ELSE <<>>)
    \o (IF At(s, p) \in {"1", "2"} /\ At(s, p + 1) \in Digits THEN <<2>> ELSE <<>>)
    \o (IF At(s, p) = "0" /\ At(s, p + 1) \in Digits \ {"0"} THEN <<2>> ELSE <<>>)
    \o (IF At(s, p) \in Digits \ {"0"} THEN <<1>> ELSE <<>>)
    \o (IF At(s, p) = " " /\ At(s, p + 1) \in Digits \ {"0"} THEN <<2>> ELSE <<>>)

\* The first of the month lengths ms, from index i on, after which a dash
\* and a day follow; 0 if there is none.
RECURSIVE FirstMonthLen(_, _, _)
FirstMonthLen(s, ms, i) ==
    IF i > Len(ms) THEN 0
    ELSE IF At(s, 6 + ms[i]) = "-" /\ DayLens(s, 7 + ms[i]) # <<>> THEN ms[i]
    ELSE FirstMonthLen(s, ms, i + 1)

\* The match with a month of ml characters (0: no match).
MatchWithMonth(s, ml) ==
    IF ml = 0 THEN None ELSE Some([ml |-> ml, dl |-> DayLens(s, 7 + ml)[1]])

\* format_regex.match(data_string) for "%Y-%m-%d": the first path through
\* the alternatives that matches a prefix of s, as [ml, dl] (lengths of the
\* month and day groups), or None.  The year starts at 1, the month at 6.
RegexMatch(s) ==
    IF YearLens(s, 1) = <<>> \/ At(s, 5) # "-" THEN None
    ELSE MatchWithMonth(s, FirstMonthLen(s, MonthLens(s, 6), 1))

IsLeap(year) == year % 4 = 0 /\ (year % 100 # 0 \/ year % 400 = 0)

DaysInMonth(year, month) ==
    IF month = 2 THEN (IF IsLeap(year) THEN 29 ELSE 28)
    ELSE IF month \in {4, 6, 9, 11} THEN 30 ELSE 31

\* The outcome of a failed parse: strptime raises ValueError.
ParseError == [exc |-> Some("ValueError"), dt |-> None]

\* datetime(year, month, day), which raises ValueError for year 0 and for a
\* day the month does not have.
MakeDate(year, month, day) ==
    IF year < 1 THEN ParseError
    ELSE IF day > DaysInMonth(year, month) THEN ParseError
    ELSE [exc |-> None,
          dt |-> Some([year |-> year, month |-> month, day |-> day])]

\* The groups of a match whose month has ml characters and whose day has dl:
\* text after the match is "unconverted data remains".
ConvertGroups(s, ml, dl) ==
    IF Len(s) # 6 + ml + dl THEN ParseError
    ELSE MakeDate(IntOf(s, 1, 4), IntOf(s, 6, 5 + ml), IntOf(s, 7 + ml, 6 + ml + dl))

\* The value strptime gives for the match m of the format regex: None is
\* "time data does not match format".
ConvertMatch(s, m) ==
    IF m = None THEN ParseError ELSE ConvertGroups(s, m[1].ml, m[1].dl)

\* datetime.strptime(s, "%Y-%m-%d"): [exc |-> None, dt |-> Some(datetime)] or
\* [exc |-> Some(exception type), dt |-> None].
strptime(s) == ConvertMatch(s, RegexMatch(s))

\* ------------------------------------------------------------- the inputs
Date(y, m, d) == y \o <<"-">> \o m \o <<"-">> \o d

Y2024 == <<"2", "0", "2", "4">>

Y2023 == <<"2", "0", "2", "3">>

Y1900 == <<"1", "9", "0", "0">>

Y2000 == <<"2", "0", "0", "0">>

EmptyStr == <<>>

\* "invalid-date", the invalid initial value of main()
InvalidDateStr == <<"i", "n", "v", "a", "l", "i", "d", "-", "d", "a", "t", "e">>

\* "2024-12-31", the valid initial value of main()
ValidDateStr == Date(Y2024, <<"1", "2">>, <<"3", "1">>)

\* Ten characters of the shape dddd-dd-dd that name a real calendar date.
RealDates ==
    { ValidDateStr,
      Date(Y2024, <<"0", "2">>, <<"2", "9">>),
      Date(Y2000, <<"0", "2">>, <<"2", "9">>),
      Date(Y2024, <<"0", "4">>, <<"3", "0">>),
      Date(<<"0", "0", "0", "1">>, <<"0", "1">>, <<"0", "1">>),
      Date(<<"9", "9", "9", "9">>, <<"1", "2">>, <<"3", "1">>) }

\* Ten characters of the shape dddd-dd-dd that name no calendar date.
UnrealDates ==
    { Date(Y2023, <<"0", "2">>, <<"2", "9">>),
      Date(Y1900, <<"0", "2">>, <<"2", "9">>),
      Date(Y2024, <<"0", "2">>, <<"3", "0">>),
      Date(Y2024, <<"0", "4">>, <<"3", "1">>),
      Date(Y2024, <<"1", "3">>, <<"0", "1">>),
      Date(Y2024, <<"0", "0">>, <<"1", "0">>),
      Date(Y2024, <<"0", "1">>, <<"0", "0">>),
      Date(Y2024, <<"0", "1">>, <<"3", "2">>),
      Date(<<"0", "0", "0", "0">>, <<"0", "1">>, <<"0", "1">>) }

\* Strings of another shape that strptime nevertheless parses.
LenientDates ==
    { Date(Y2024, <<"1">>, <<"5">>),
      Date(Y2024, <<"0", "1">>, <<" ", "5">>),
      Date(Y2024, <<"1", "0">>, <<"1">>) }

\* Strings of another shape that strptime rejects.
Malformed ==
    { InvalidDateStr,
      Date(Y2024, <<"0", "1">>, <<"3", "1", "1">>),
      Date(Y2024, <<"0", "1">>, <<"0", "1", " ">>),
      Date(<<" ">> \o Y2024, <<"0", "1">>, <<"0", "1">>),
      Date(<<"2", "0", "2">>, <<"0", "1">>, <<"0", "1">>),
      Y2024 \o <<"0", "1", "0", "1">>,
      Y2024 \o <<"/", "0", "1", "/", "0", "1">>,
      Date(Y2024, <<"0", "1">>, <<"0", "a">>),
      Date(Y2024, <<"0", "1">>, <<>>),
      Date(Y2024, <<"2">>, <<"3", "0">>),
      Date(Y2024, <<"1">>, <<"3", "2">>),
      ValidDateStr \o <<" ", "1", "0", ":", "0", "0", ":", "0", "0">> }

\* The raw strings a text field can hold in this model.
Values == {EmptyStr} \cup RealDates \cup UnrealDates \cup LenientDates \cup Malformed

\* "YYYY-MM-DD", the default hint_text of DateTimeTextField
DefaultHint == <<"Y", "Y", "Y", "Y", "-", "M", "M", "-", "D", "D">>

Hints == {DefaultHint, <<"d", "a", "t", "e">>}

Classes == {"ValidatedTextField", "DateTimeTextField"}

\* The selectors a constructor is called with: ValidatedTextField declares
\* validation_event: ValidationEvent, DateTimeTextField declares
\* validation_event: str and forwards whatever it is given.
ValidationEvents(k) ==
    IF k = "ValidatedTextField" THEN {ON_BLUR, ON_CHANGE}
    ELSE {ON_BLUR, ON_CHANGE, StrOnBlur, StrOnChange}

\* The default of the validation_event parameter of each constructor.
DefaultValidationEvent(k) ==
    IF k = "ValidatedTextField" THEN ON_BLUR ELSE StrOnBlur

\* ---------------------------------------------------------------- methods
\* Each method gives the object after the call (self) and the exception that
\* left the call (raised), if any.

\* ValidatedTextField._validate_value
Base_validate_value(self, value) ==
    [self |-> [self EXCEPT !._is_valid = TRUE], raised |-> None]

\* Variant of the try statement: the except branch resets the flag but
\* leaves the previously parsed datetime in place.
DateTime_try_parse_keeps_datetime(self, r) ==
    IF r.exc = None
    THEN [self |-> [self EXCEPT !._datetime_value = r.dt, !._is_valid = TRUE],
          raised |-> None]
    ELSE IF r.exc = Some("ValueError")
    THEN [self |-> [self EXCEPT !._is_valid = FALSE], raised |-> None]
    ELSE [self |-> self, raised |-> r.exc]

\* Variant: a successful parse stores the datetime but does not set the flag.
DateTime_try_parse_flag_not_set(self, r) ==
    IF r.exc = None
    THEN [self |-> [self EXCEPT !._datetime_value = r.dt], raised |-> None]
    ELSE IF r.exc = Some("ValueError")
    THEN [self |-> [self EXCEPT !._datetime_value = None, !._is_valid = FALSE],
          raised |-> None]
    ELSE [self |-> self, raised |-> r.exc]

\* Variant: the except clause names TypeError, so a ValueError propagates.
DateTime_try_parse_wrong_except(self, r) ==
    IF r.exc = None
    THEN [self |-> [self EXCEPT !._datetime_value = r.dt, !._is_valid = TRUE],
          raised |-> None]
    ELSE IF r.exc = Some("TypeError")
    THEN [self |-> [self EXCEPT !._datetime_value = None, !._is_valid = FALSE],
          raised |-> None]
    ELSE [self |-> self, raised |-> r.exc]

\* The try statement of DateTimeTextField._validate_value, r being the
\* outcome of datetime.strptime(value, self._format).  An exception that the
\* except clause does not name leaves the attributes as they were and
\* propagates.
DateTime_try_parse(self, r) ==
    IF r.exc = None
    THEN [self |-> [self EXCEPT !._datetime_value = r.dt, !._is_valid = TRUE],
          raised |-> None]
    ELSE IF r.exc = Some("ValueError")
    THEN [self |-> [self EXCEPT !._datetime_value = None, !._is_valid = FALSE],
          raised |-> None]
    ELSE [self |-> self, raised |-> r.exc]

\* DateTimeTextField._validate_value
DateTime_validate_value(self, value) ==
    IF value = EmptyStr
    THEN [self |-> [self EXCEPT !._is_valid = FALSE, !._datetime_value = None],
          raised |-> None]
    ELSE DateTime_try_parse(self, strptime(value))

\* self._validate_value(value), dispatched on the class of self.
validate_value(self, value) ==
    IF self.klass = "DateTimeTextField" THEN DateTime_validate_value(self, value)
    ELSE Base_validate_value(self, value)

\* The two fixed parts of f"... ({self.hint_text}) ..." on line 127
\* (a character outside ASCII is written as its code point).
TemplatePrefix == <<"U+6B63", "U+3057", "U+3044", "U+5F62", "U+5F0F", " ", "(">>

TemplateSuffix ==
    <<")", " ", "U+3067", "U+5165", "U+529B", "U+3057", "U+3066", "U+304F",
      "U+3060", "U+3055", "U+3044">>

ErrorTemplate(hint) == TemplatePrefix \o hint \o TemplateSuffix

\* ValidatedTextField._get_error_message
Base_get_error_message(self, value) == None

\* Variant of DateTimeTextField._get_error_message without the "and value"
\* test: an empty value gets the error message too.
DateTime_get_error_message_no_empty_test(self, value) ==
    IF ~self._is_valid THEN Some(ErrorTemplate(self.hint_text)) ELSE None

\* DateTimeTextField._get_error_message
DateTime_get_error_message(self, value) ==
    IF ~self._is_valid /\ value # EmptyStr
    THEN Some(ErrorTemplate(self.hint_text))
    ELSE None

\* self._get_error_message(value), dispatched on the class of self.
get_error_message(self, value) ==
    IF self.klass = "DateTimeTextField" THEN DateTime_get_error_message(self, value)
    ELSE Base_get_error_message(self, value)

\* The properties value, is_valid and datetime_value.
value_of(self) == self.text_field.value

is_valid_of(self) == self._is_valid

datetime_value_of(self) ==
    IF is_valid_of(self) THEN self._datetime_value ELSE None

\* self._on_update(): the callback repaints what the widget shows at the
\* moment of the call; log is the sequence of error texts it has painted.
on_update_call(self, log) == Append(log, self.text_field.error_text)

\* The handlers the ft.TextField is constructed with (lines 39 and 40).
BoundOnBlur(validation_event) ==
    IF PyEq(validation_event, ON_BLUR) THEN Some("_handle_validation") ELSE None

BoundOnChange(validation_event) ==
    IF PyEq(validation_event, ON_CHANGE) THEN Some("_handle_validation") ELSE None

\* initial_value if initial_value is not None else ""
InitialValueStr(initial_value) ==
    IF initial_value # None THEN initial_value[1] ELSE EmptyStr

\* The attributes the two constructors set before the first validation.
NewObject(k, hint, initial_value_str, validation_event, on_update) ==
    [klass |-> k,
     hint_text |-> hint,
     _validation_event |-> validation_event,
     _is_valid |-> FALSE,
     _on_update |-> on_update,
     _datetime_value |-> None,
     text_field |-> [value |-> initial_value_str,
                     error_text |-> None,
                     on_blur |-> BoundOnBlur(validation_event),
                     on_change |-> BoundOnChange(validation_event)]]

\* Variant of the constructor without line 44: the error display is left as
\* the widget was built.
set_initial_error_skipped(v, value) == v

\* Line 44, v being the outcome of line 43.
set_initial_error(v, value) ==
    IF v.raised # None THEN v
    ELSE [self |-> [v.self EXCEPT !.text_field.error_text =
                        IF ~v.self._is_valid
                        THEN get_error_message(v.self, value)
                        ELSE None],
          raised |-> None]

\* Lines 43 and 44 on the new object s0.
validate_initial(s0) ==
    set_initial_error(validate_value(s0, s0.text_field.value), s0.text_field.value)

\* The constructor.  initial_value is None or Some(string).
Construct(k, hint, initial_value, validation_event, on_update) ==
    validate_initial(
        NewObject(k, hint, InitialValueStr(initial_value), validation_event, on_update))

\* Lines 59 and 60, after the display was updated; log becomes the callback
\* log after the call.
notify(self, log) ==
    [self |-> self,
     log |-> IF self._on_update # None THEN on_update_call(self, log) ELSE log,
     raised |-> None]

\* Variant of lines 57 to 60 that shows a new error message but never
\* clears one that is displayed.
apply_error_text_never_clears(self, log, new_error_text) ==
    IF new_error_text # None /\ self.text_field.error_text # new_error_text
    THEN notify([self EXCEPT !.text_field.error_text = new_error_text], log)
    ELSE [self |-> self, log |-> log, raised |-> None]

\* Variant that assigns the error text and calls the callback on every
\* event, changed or not.
apply_error_text_always(self, log, new_error_text) ==
    notify([self EXCEPT !.text_field.error_text = new_error_text], log)

\* Lines 57 to 60.
apply_error_text(self, log, new_error_text) ==
    IF self.text_field.error_text # new_error_text
    THEN notify([self EXCEPT !.text_field.error_text = new_error_text], log)
    ELSE [self |-> self, log |-> log, raised |-> None]

\* Lines 55 to 60, v being the outcome of line 54.
after_validate(v, log, value) ==
    IF v.raised # None THEN [self |-> v.self, log |-> log, raised |-> v.raised]
    ELSE apply_error_text(v.self, log,
             IF ~v.self._is_valid THEN get_error_message(v.self, value) ELSE None)

\* _handle_validation(e) with e.control.value = value.
handle_validation(self, log, value) ==
    after_validate(validate_value(self, value), log, value)

\* ------------------------------------------------------------------ state
\* field       the field object (self)
\* update_log  what each call of the repaint callback painted
\* last_event  the most recent validation run: the construction or a trigger
\*             event, its value and the error text shown when it arrived
\* raised      the exception that left the most recent run, or None
VARIABLES field, update_log, last_event, raised

vars == <<field, update_log, last_event, raised>>

OnUpdates == {None, Some("page.update")}

\* The state after a construction with outcome c.
Constructed(c) ==
    /\ field = c.self
    /\ update_log = <<>>
    /\ last_event = [kind |-> "init", value |-> c.self.text_field.value,
                     shown |-> None]
    /\ raised = c.raised

Init ==
    \E k \in Classes, hint \in Hints, iv \in {None} \cup {Some(s) : s \in Values},
       ou \in OnUpdates :
      \E ve \in ValidationEvents(k) :
        Constructed(Construct(k, hint, iv, ve, ou))

\* The state after a handler run with outcome r on the widget state tf.
Handled(r, tf) ==
    /\ field' = r.self
    /\ update_log' = r.log
    /\ raised' = r.raised
    /\ last_event' = [kind |-> "trigger", value |-> tf.value,
                      shown |-> tf.error_text]

\* The toolkit dispatches an event of the widget, whose state is tf, to the
\* bound handler.
Dispatch(tf) ==
    Handled(handle_validation([field EXCEPT !.text_field = tf], update_log, tf.value), tf)

\* The widget after the user changed its text to v.
Edited(v) == [field.text_field EXCEPT !.value = v]

\* The user changes the text to v; the widget fires on_change if bound.
UserEdit(v) ==
    /\ v # field.text_field.value
    /\ Len(update_log) < MaxUpdates
    /\ IF field.text_field.on_change # None
       THEN Dispatch(Edited(v))
       ELSE /\ field' = [field EXCEPT !.text_field = Edited(v)]
            /\ UNCHANGED <<update_log, last_event, raised>>

\* The widget loses focus and fires on_blur, which is bound.
Blur ==
    /\ field.text_field.on_blur # None
    /\ Len(update_log) < MaxUpdates
    /\ Dispatch(field.text_field)

Next ==
    \/ \E v \in Values : UserEdit(v)
    \/ Blur

Spec == Init /\ [][Next]_vars

\* ------------------------------------------------------------- properties
IsDateTimeField == field.klass = "DateTimeTextField"

AfterTrigger == last_event.kind = "trigger"

\* The error text a DateTimeTextField shows for an invalid non-empty value.
TemplateShown == Some(ErrorTemplate(field.hint_text))

\* C1: the error text a DateTimeTextField displays agrees with the validity
\* flag and the value of the most recent validation run (the last trigger
\* event, or the construction): the template exactly when the flag is false
\* and that value is non-empty, None otherwise.
C1_ErrorTextConsistent ==
    IsDateTimeField =>
        field.text_field.error_text =
            IF ~is_valid_of(field) /\ last_event.value # EmptyStr
            THEN TemplateShown ELSE None

\* A trigger event arrived while an error was displayed and cleared it.
C1_Witness ==
    /\ IsDateTimeField /\ AfterTrigger
    /\ last_event.shown # None
    /\ is_valid_of(field)
    /\ field.text_field.error_text = None

\* A step in which the toolkit runs _handle_validation.
HandlerStep ==
    \/ Blur
    \/ \E v \in Values : UserEdit(v) /\ field.text_field.on_change # None

\* The error message the run of this step computed (line 55).
ComputedErrorText ==
    IF ~field'._is_valid THEN get_error_message(field', last_event'.value) ELSE None

\* C2: in a trigger event the repaint callback runs iff the computed error
\* message differs from the one displayed before and a callback was given,
\* then once and after the display was updated; otherwise the callback does
\* not run, and an unchanged message leaves the display alone.  A repeated
\* trigger event with the same value never repaints.
C2_RepaintOnlyOnChange ==
    [][HandlerStep =>
        /\ IF ComputedErrorText # field.text_field.error_text
           THEN /\ field'.text_field.error_text = ComputedErrorText
                /\ update_log' = IF field._on_update # None
                                 THEN Append(update_log, ComputedErrorText)
                                 ELSE update_log
           ELSE /\ field'.text_field.error_text = field.text_field.error_text
                /\ update_log' = update_log
        /\ (AfterTrigger /\ last_event'.value = last_event.value
              => update_log' = update_log)]_vars

\* A trigger event changed the displayed error and the callback painted it.
C2_Witness ==
    /\ AfterTrigger
    /\ last_event.shown # field.text_field.error_text
    /\ Len(update_log) = 1
    /\ update_log[1] = field.text_field.error_text

\* C3: the widget's handler for the event the selector names is bound to
\* _handle_validation and the other handler is unbound.
C3_SelectedHandlerBound ==
    /\ field._validation_event.value = "on_blur" =>
          /\ field.text_field.on_blur = Some("_handle_validation")
          /\ field.text_field.on_change = None
    /\ field._validation_event.value = "on_change" =>
          /\ field.text_field.on_change = Some("_handle_validation")
          /\ field.text_field.on_blur = None

\* C4: is_valid of a DateTimeTextField is the result of validating the raw
\* string the value property returns now.
C4_IsValidOfCurrentValue ==
    IsDateTimeField =>
        is_valid_of(field) = validate_value(field, value_of(field)).self._is_valid

\* C5: while is_valid is false the parsed value is None; stated of the
\* datetime_value property and of the attribute behind it.
C5_ParsedOnlyWhenValid ==
    ~is_valid_of(field) =>
        /\ datetime_value_of(field) = None
        /\ field._datetime_value = None

\* A trigger event made a DateTimeTextField invalid that showed no error.
C5_Witness ==
    /\ IsDateTimeField /\ AfterTrigger
    /\ ~is_valid_of(field)
    /\ last_event.shown = None
    /\ last_event.value # EmptyStr

\* The shape YYYY-MM-DD: four digits, a dash, two digits, a dash, two digits.
IsDateShape(s) ==
    /\ Len(s) = 10
    /\ \A i \in {1, 2, 3, 4, 6, 7, 9, 10} : s[i] \in Digits
    /\ s[5] = "-" /\ s[8] = "-"

\* The number the digits s[i..j] denote.
RECURSIVE Decimal(_, _, _)
Decimal(s, i, j) ==
    IF j < i THEN 0 ELSE 10 * Decimal(s, i, j - 1) + DigitValue(s[j])

\* The Gregorian calendar, stated apart from the parser.
GregorianLeap(y) == (y % 4 = 0 /\ y % 100 # 0) \/ y % 400 = 0

MonthLength(y, m) ==
    CASE m \in {1, 3, 5, 7, 8, 10, 12} -> 31
      [] m \in {4, 6, 9, 11} -> 30
      [] m = 2 -> IF GregorianLeap(y) THEN 29 ELSE 28
      [] OTHER -> 0

\* A string of the shape YYYY-MM-DD that names a day of the calendar.
IsCalendarDate(s) ==
    /\ IsDateShape(s)
    /\ Decimal(s, 1, 4) >= 1
    /\ Decimal(s, 9, 10) >= 1
    /\ Decimal(s, 9, 10) <= MonthLength(Decimal(s, 1, 4), Decimal(s, 6, 7))

\* The datetime a string of the shape YYYY-MM-DD names.
DateOf(s) ==
    [year |-> Decimal(s, 1, 4), month |-> Decimal(s, 6, 7), day |-> Decimal(s, 9, 10)]

\* C6 as stated: after a validation run with any string of the shape
\* YYYY-MM-DD a DateTimeTextField is valid and datetime_value is the date
\* that parsing the string with "%Y-%m-%d" gives.
C6_EveryShapedStringValid ==
    IsDateTimeField /\ IsDateShape(last_event.value) =>
        /\ is_valid_of(field)
        /\ strptime(last_event.value).exc = None
        /\ datetime_value_of(field) = strptime(last_event.value).dt

\* C6 amended: after a validation run with a string of the shape YYYY-MM-DD
\* that names a real calendar date (year 0001 to 9999, month 01 to 12, day
\* within the month), a DateTimeTextField is valid and datetime_value is
\* that date, which is what parsing the string with "%Y-%m-%d" gives.
C6_CalendarDateValid ==
    IsDateTimeField /\ IsCalendarDate(last_event.value) =>
        /\ is_valid_of(field)
        /\ datetime_value_of(field) = Some(DateOf(last_event.value))
        /\ datetime_value_of(field) = strptime(last_event.value).dt

\* A trigger event delivered a leap day to a field that was invalid.
C6_Witness ==
    /\ IsDateTimeField /\ AfterTrigger
    /\ IsCalendarDate(last_event.value)
    /\ DateOf(last_event.value).month = 2 /\ DateOf(last_event.value).day = 29
    /\ last_event.shown # None
    /\ is_valid_of(field)

C8_UnshapedStringInvalid ==
    IsDateTimeField /\ last_event.value # EmptyStr /\ ~IsDateShape(last_event.value) =>
        /\ ~is_valid_of(field)
        /\ field.text_field.error_text = TemplateShown

\* C9: no validation run ends with an exception, and after a run whose
\* parse failed the field is invalid with no parsed value and displays the
\* error template.
C9_ParseFailureHandled ==
    /\ raised = None
    /\ IsDateTimeField /\ last_event.value # EmptyStr
         /\ strptime(last_event.value).exc # None =>
            /\ ~is_valid_of(field)
            /\ datetime_value_of(field) = None
            /\ field._datetime_value = None
            /\ field.text_field.error_text = TemplateShown

\* A trigger event delivered an unparsable string to a field that showed
\* no error.
C9_Witness ==
    /\ IsDateTimeField /\ AfterTrigger
    /\ strptime(last_event.value).exc = Some("ValueError")
    /\ last_event.shown = None
    /\ ~is_valid_of(field)
    /\ field.text_field.error_text # None

\* C10: right after construction, before any trigger event, is_valid,
\* datetime_value and error_text of a DateTimeTextField are what a trigger
\* event with the initial value leaves; "2024-12-31" is valid with no error
\* shown and "invalid-date" is invalid with the template shown.
C10_ConstructionValidates ==
    IsDateTimeField /\ last_event.kind = "init" =>
        LET r == handle_validation(field, update_log, last_event.value)
        IN  /\ raised = r.raised
            /\ is_valid_of(field) = is_valid_of(r.self)
            /\ datetime_value_of(field) = datetime_value_of(r.self)
            /\ field.text_field.error_text = r.self.text_field.error_text
            /\ last_event.value = ValidDateStr =>
                  /\ is_valid_of(field)
                  /\ datetime_value_of(field) = Some([year |-> 2024, month |-> 12, day |-> 31])
                  /\ field.text_field.error_text = None
            /\ last_event.value = InvalidDateStr =>
                  /\ ~is_valid_of(field)
                  /\ datetime_value_of(field) = None
                  /\ field.text_field.error_text = TemplateShown

\* A DateTimeTextField constructed with an invalid initial value.
C10_Witness ==
    /\ IsDateTimeField /\ last_event.kind = "init"
    /\ last_event.value = InvalidDateStr
    /\ field.text_field.value = InvalidDateStr
    /\ field.text_field.error_text = TemplateShown
====
